---- MODULE Spec2Model ----
(***************************************************************************)
(* NeuralShield enhanced_models: the ensemble threat detector              *)
(* (EnhancedThreatDetector) and the five detector modules it dispatches    *)
(* to.  Python floats are modelled as exact rationals <<n, d>> (d > 0, in  *)
(* lowest terms); dictionaries are functions over sets of string keys, so  *)
(* `"k" in d` is `"k" \in DOMAIN d`.  Timestamps are left out of every     *)
(* result.                                                                 *)
(***************************************************************************)
EXTENDS Integers, Sequences, FiniteSets, TLC

\* detection_weights  self.detection_weights of the EnhancedThreatDetector
\* op, arg, ret       the last call made, its argument and what it returned
\* totals             total_risk_score and total_confidence at the end of the
\*                    loop of the last _calculate_ensemble_decision
VARIABLES detection_weights, op, arg, ret, totals

vars == <<detection_weights, op, arg, ret, totals>>

(***************************************************************************)
(* Bounds of the model.                                                    *)
(***************************************************************************)
\* largest weight value an operator passes to update_detection_weights
MaxWeight == 2

(***************************************************************************)
(* Exact rational arithmetic standing in for float arithmetic.             *)
(***************************************************************************)
Abs(n) == IF n < 0 THEN 0 - n ELSE n

RECURSIVE GCD(_, _)
GCD(a, b) == IF b = 0 THEN a ELSE GCD(b, a % b)

\* the rational n/d (d # 0) in lowest terms with a positive denominator
Rat(n, d) ==
    LET s == IF d < 0 THEN 0 - 1 ELSE 1
        g == GCD(Abs(n), Abs(d))
    IN  <<(s * n) \div g, (s * d) \div g>>

RInt(n) == <<n, 1>>
RZero == <<0, 1>>
ROne == <<1, 1>>
RAdd(a, b) == Rat(a[1] * b[2] + b[1] * a[2], a[2] * b[2])
RMul(a, b) == Rat(a[1] * b[1], a[2] * b[2])
RDiv(a, b) == Rat(a[1] * b[2], a[2] * b[1])
RLt(a, b) == a[1] * b[2] < b[1] * a[2]
RLe(a, b) == a[1] * b[2] <= b[1] * a[2]
RGe(a, b) == RLe(b, a)
RGt(a, b) == RLt(b, a)
\* Python's min(a, b): b only when b < a
RMin(a, b) == IF RLt(b, a) THEN b ELSE a

\* d.get(k, default)
Get(d, k, default) == IF k \in DOMAIN d THEN d[k] ELSE default

\* sum(d.values()) for a dictionary of integers
RECURSIVE SumInt(_, _)
SumInt(d, keys) ==
    IF keys = {} THEN 0
    ELSE LET k == CHOOSE x \in keys : TRUE
         IN  d[k] + SumInt(d, keys \ {k})

\* sum of a dictionary of rationals
RECURSIVE SumRat(_, _)
SumRat(d, keys) ==
    IF keys = {} THEN RZero
    ELSE LET k == CHOOSE x \in keys : TRUE
         IN  RAdd(d[k], SumRat(d, keys \ {k}))

(***************************************************************************)
(* EnhancedThreatDetector: the detection weights.                          *)
(***************************************************************************)
Modules == {"signature", "file_analysis", "behavioral", "encrypted", "social_engineering"}

\* the social-engineering block moved ahead of the others
ModuleOrder_SocialFirst == <<"social_engineering", "signature", "file_analysis", "behavioral", "encrypted">>

\* invocation order of the modules in detect_threats
ModuleOrder == <<"signature", "file_analysis", "behavioral", "encrypted", "social_engineering">>

\* the defaults with the encrypted weight mistyped as 0.20
DefaultWeights_Mistyped ==
    [m \in Modules |-> IF m = "signature" THEN Rat(25, 100) ELSE Rat(20, 100)]

DefaultWeights ==
    [m \in Modules |->
        CASE m = "signature" -> Rat(25, 100)
          [] m = "file_analysis" -> Rat(20, 100)
          [] m = "behavioral" -> Rat(20, 100)
          [] m = "encrypted" -> Rat(15, 100)
          [] m = "social_engineering" -> Rat(20, 100)]

\* keys an operator uses in a weight set: module names and a foreign key
WeightKeys == {"signature", "custom"}

\* the numeric weight sets passed to update_detection_weights
WeightSets == UNION {[K -> (0 - 1) .. MaxWeight] : K \in SUBSET WeightKeys}

\* a weight set whose values cannot be summed (a value that is no number):
\* sum() raises and the handler leaves the weights alone
NewWeightsInputs ==
    [numeric : {TRUE}, w : WeightSets] \cup [numeric : {FALSE}, w : {<<>>}]

\* the weights stored as given, without the division
NormalizedWeights_NoDivision(new_weights, total_weight) ==
    [k \in DOMAIN new_weights |-> RInt(new_weights[k])]

\* the dictionary comprehension {k: v/total_weight for k, v in new_weights.items()}
NormalizedWeights(new_weights, total_weight) ==
    [k \in DOMAIN new_weights |-> Rat(new_weights[k], total_weight)]

\* the new entries merged into the weights, the others kept
update_detection_weights_Merge(nw) ==
    /\ detection_weights' =
          IF ~nw.numeric THEN detection_weights
          ELSE LET total_weight == SumInt(nw.w, DOMAIN nw.w)
               IN  IF total_weight > 0
                   THEN [k \in DOMAIN nw.w \cup DOMAIN detection_weights |->
                            IF k \in DOMAIN nw.w
                            THEN NormalizedWeights(nw.w, total_weight)[k]
                            ELSE detection_weights[k]]
                   ELSE DefaultWeights
    /\ op' = "update_weights"
    /\ arg' = nw
    /\ ret' = <<>>
    /\ totals' = <<>>

update_detection_weights(nw) ==
    /\ detection_weights' =
          IF ~nw.numeric THEN detection_weights
          ELSE LET total_weight == SumInt(nw.w, DOMAIN nw.w)
               IN  IF total_weight > 0
                   THEN NormalizedWeights(nw.w, total_weight)
                   ELSE DefaultWeights
    /\ op' = "update_weights"
    /\ arg' = nw
    /\ ret' = <<>>
    /\ totals' = <<>>

(***************************************************************************)
(* Inputs.  Python's None is the string NoneValue.  A text (file content,  *)
(* command line, host name, e-mail body, URL) is modelled by the set of    *)
(* watched substrings that occur in its lower-cased form, so               *)
(* `needle.lower() in text.lower()` is `needle \in text`.                  *)
(***************************************************************************)
NoneValue == "<None>"

\* the empty dictionary {}
EmptyDict == [k \in {} |-> 0]

\* number of needles of the list that occur in the text
CountIn(list, text) == Cardinality(list \cap text)

(***************************************************************************)
(* signature_detector_simple.py                                            *)
(***************************************************************************)
\* a file as the adapters see it through the path:
\*   kind    "invalid" (the path is no path: os.path.exists raises),
\*           "missing" (os.path.exists is false),
\*           "unreadable" (exists, open() raises), "text" (exists, readable)
\*   size    byte count; ext  lower-cased extension; strings  the content
EmptySha256 == "e3b0c44298fc1c149afbf4c8996fb92427ae41e4649b934ca495991b7852b855"

signature_database ==
    [h \in {EmptySha256, "d41d8cd98f00b204e9800998ecf8427e", "5d41402abc4b2a76b9719d911017c592"} |->
        CASE h = EmptySha256 -> "Trojan.Generic"
          [] h = "d41d8cd98f00b204e9800998ecf8427e" -> "Malware.Sample"
          [] h = "5d41402abc4b2a76b9719d911017c592" -> "Virus.Test"]

\* strings of the rule "suspicious_strings", lower-cased
yara_strings == {"cmd.exe", "powershell", "downloadstring"}

\* hashlib.sha256(content).hexdigest(): a 64-digit digest.  The digest of
\* the empty content is the table's first key; the two 32-digit keys of the
\* table are no SHA-256 digests, and any other content has another digest.
Sha256Hex(file) ==
    IF file.size = 0 THEN EmptySha256 ELSE "sha256-of-nonempty-content"

calculate_hash(file) ==
    IF file.kind = "unreadable" THEN "error_hash" ELSE Sha256Hex(file)

\* the rule firing on a single string
check_yara_rules_OneMatch(file) ==
    IF file.kind = "unreadable"
    THEN [detected |-> FALSE, threat_type |-> "Error", confidence |-> RZero,
          method |-> "yara", error |-> "open failed"]
    ELSE LET matches == CountIn(yara_strings, file.strings)
         IN  IF matches >= 1
             THEN [detected |-> TRUE, threat_type |-> "YARA: suspicious_strings",
                   confidence |-> Rat(8, 10), method |-> "yara",
                   details |-> [rule |-> "suspicious_strings", matches |-> matches]]
             ELSE [detected |-> FALSE, threat_type |-> "Clean", confidence |-> RZero,
                   method |-> "yara"]

check_yara_rules(file) ==
    IF file.kind = "unreadable"
    THEN [detected |-> FALSE, threat_type |-> "Error", confidence |-> RZero,
          method |-> "yara", error |-> "open failed"]
    ELSE LET matches == CountIn(yara_strings, file.strings)
         IN  IF matches >= 2
             THEN [detected |-> TRUE, threat_type |-> "YARA: suspicious_strings",
                   confidence |-> Rat(8, 10), method |-> "yara",
                   details |-> [rule |-> "suspicious_strings", matches |-> matches]]
             ELSE [detected |-> FALSE, threat_type |-> "Clean", confidence |-> RZero,
                   method |-> "yara"]

SignatureDetector_detect_threats(file) ==
    IF file.kind = "invalid"
    THEN [detected |-> FALSE, threat_type |-> "Error", confidence |-> RZero,
          method |-> "signature", error |-> "TypeError"]
    ELSE IF file.kind = "missing"
    THEN [detected |-> FALSE, threat_type |-> "Unknown", confidence |-> RZero,
          method |-> "signature", error |-> "File not found"]
    ELSE LET file_hash == calculate_hash(file)
             yara_result == check_yara_rules(file)
         IN  IF file_hash \in DOMAIN signature_database
             THEN [detected |-> TRUE, threat_type |-> signature_database[file_hash],
                   confidence |-> Rat(95, 100), method |-> "signature",
                   details |-> [hash |-> file_hash, signature_match |-> TRUE]]
             ELSE IF yara_result.detected
             THEN yara_result
             ELSE [detected |-> FALSE, threat_type |-> "Clean", confidence |-> RZero,
                   method |-> "signature",
                   details |-> [hash |-> file_hash, signature_match |-> FALSE]]

(***************************************************************************)
(* file_analyzer_simple.py                                                 *)
(***************************************************************************)
\* malicious_patterns, lower-cased
malicious_patterns ==
    {"cmd.exe", "powershell", "downloadstring", "invoke-expression",
     "regsvr32", "rundll32", "wscript", "cscript", "mshta"}

suspicious_extensions == {".exe", ".bat", ".cmd", ".ps1", ".vbs", ".js"}

\* the malicious threshold read as 0.4
ClassifyScore_HigherThreshold(threat_score) ==
    IF RGt(threat_score, Rat(4, 10))
    THEN <<"malicious",
           RMin(Rat(9, 10), RAdd(Rat(5, 10), RMul(threat_score, Rat(4, 10)))),
           "Script-based Malware">>
    ELSE IF RGt(threat_score, Rat(1, 10))
    THEN <<"suspicious", Rat(6, 10), "Potentially Suspicious">>
    ELSE <<"benign", Rat(8, 10), "Clean File">>

\* prediction, confidence and threat_type chosen from the threat score
ClassifyScore(threat_score) ==
    IF RGt(threat_score, Rat(3, 10))
    THEN <<"malicious",
           RMin(Rat(9, 10), RAdd(Rat(5, 10), RMul(threat_score, Rat(4, 10)))),
           "Script-based Malware">>
    ELSE IF RGt(threat_score, Rat(1, 10))
    THEN <<"suspicious", Rat(6, 10), "Potentially Suspicious">>
    ELSE <<"benign", Rat(8, 10), "Clean File">>

FileAnalyzer_predict(file) ==
    IF file.kind = "invalid"
    THEN [prediction |-> "error", confidence |-> RZero,
          threat_type |-> "Analysis Error", error |-> "TypeError"]
    ELSE IF file.kind = "missing"
    THEN [prediction |-> "error", confidence |-> RZero,
          threat_type |-> "File Not Found", error |-> "File not found"]
    ELSE LET is_suspicious_extension == file.ext \in suspicious_extensions
             malicious_count == CountIn(malicious_patterns, file.strings)
             threat_score == Rat(malicious_count, Cardinality(malicious_patterns))
         IN  IF file.kind = "unreadable"
             THEN IF is_suspicious_extension /\ file.size > 1024
                  THEN [prediction |-> "suspicious", confidence |-> Rat(6, 10),
                        threat_type |-> "Suspicious Binary",
                        features |-> [file_size |-> file.size, extension |-> file.ext,
                                      is_binary |-> TRUE]]
                  ELSE [prediction |-> "benign", confidence |-> Rat(8, 10),
                        threat_type |-> "Clean File",
                        features |-> [file_size |-> file.size, extension |-> file.ext,
                                      is_binary |-> TRUE]]
             ELSE LET verdict == ClassifyScore(threat_score)
                  IN  [prediction |-> verdict[1], confidence |-> verdict[2],
                       threat_type |-> verdict[3],
                       features |-> [file_size |-> file.size, extension |-> file.ext,
                                     malicious_patterns |-> malicious_patterns \cap file.strings,
                                     threat_score |-> threat_score,
                                     pattern_count |-> malicious_count]]

(***************************************************************************)
(* behavioral_analyzer_simple.py                                           *)
(***************************************************************************)
\* suspicious_processes, lower-cased
suspicious_processes ==
    {"powershell.exe", "cmd.exe", "wscript.exe", "cscript.exe",
     "mshta.exe", "regsvr32.exe", "rundll32.exe"}

\* suspicious_commands, lower-cased
suspicious_commands ==
    {"downloadstring", "invoke-expression", "iex", "invoke-webrequest",
     "net user", "net group", "wmic", "schtasks"}

malware_ports == {4444, 8080, 9999, 1337}

\* str.lower() on the process names the model uses
Lower(s) ==
    CASE s = "PowerShell.EXE" -> "powershell.exe"
      [] s = "WScript.exe" -> "wscript.exe"
      [] OTHER -> s

\* a process is [name, cmdline]: name a string or NoneValue (psutil reports
\* None for a process it may not inspect), cmdline the joined command line
\* as a text, or NoCmdline when it is None.  A connection is [remote_address, port]:
\* remote_address "none" (no peer), "ipv4" ("a.b.c.d:port") or "ipv6" (the
\* piece after the first colon is no decimal number: int() raises).
NoCmdline == {NoneValue}

BehaviorRaises(data) ==
    \/ \E i \in 1 .. Len(data.processes) :
          \/ data.processes[i].name = NoneValue
          \/ data.processes[i].cmdline = NoCmdline
    \/ \E i \in 1 .. Len(data.network_connections) :
          data.network_connections[i].remote_address = "ipv6"

\* the elements of a sequence that satisfy Test, in order
RECURSIVE SelectFrom(_, _, _)
SelectFrom(seq, Test(_), i) ==
    IF i > Len(seq) THEN <<>>
    ELSE (IF Test(seq[i]) THEN <<seq[i]>> ELSE <<>>) \o SelectFrom(seq, Test, i + 1)

\* sum of f(seq[i]) over a sequence
RECURSIVE SumOver(_, _, _)
SumOver(seq, f(_), i) ==
    IF i > Len(seq) THEN 0 ELSE f(seq[i]) + SumOver(seq, f, i + 1)

IsSuspiciousProcess(proc) == Lower(proc.name) \in suspicious_processes
CommandHits(proc) == CountIn(suspicious_commands, proc.cmdline)
HasCommandHit(proc) == CommandHits(proc) > 0
IsSuspiciousRemote(conn) == conn.remote_address = "ipv4" /\ conn.port \in malware_ports

\* thresholds of analyze_behavior on the raw score
BehavioralLevel(risk_score) ==
    IF RGe(risk_score, Rat(7, 10)) THEN "high"
    ELSE IF RGe(risk_score, Rat(4, 10)) THEN "medium"
    ELSE "low"

analyze_behavior(data) ==
    IF BehaviorRaises(data)
    THEN [threats_detected |-> <<>>, threat_types |-> <<>>, threat_level |-> "error",
          overall_risk_score |-> RZero, error |-> "exception"]
    ELSE LET sus_procs == SelectFrom(data.processes, IsSuspiciousProcess, 1)
             cmd_procs == SelectFrom(data.processes, HasCommandHit, 1)
             n_cmds == SumOver(data.processes, CommandHits, 1)
             sus_conns == SelectFrom(data.network_connections, IsSuspiciousRemote, 1)
             \* 0.2 per process, 0.3 per command hit, 0.1 per connection; the
             \* details of the command record list the processes hit
             risk_score == Rat(2 * Len(sus_procs) + 3 * n_cmds + Len(sus_conns), 10)
             t1 == IF Len(sus_procs) > 0
                   THEN <<[type |-> "Suspicious Process", details |-> sus_procs,
                           risk_level |-> "medium"]>>
                   ELSE <<>>
             t2 == IF n_cmds > 0
                   THEN <<[type |-> "Suspicious Commands", details |-> cmd_procs,
                           risk_level |-> "high"]>>
                   ELSE <<>>
             t3 == IF Len(sus_conns) > 0
                   THEN <<[type |-> "Suspicious Network", details |-> sus_conns,
                           risk_level |-> "medium"]>>
                   ELSE <<>>
             threats == t1 \o t2 \o t3
         IN  [threats_detected |-> threats,
              threat_types |-> [i \in 1 .. Len(threats) |-> threats[i].type],
              threat_level |-> BehavioralLevel(risk_score),
              overall_risk_score |-> RMin(RInt(10), RMul(risk_score, RInt(10))),
              analysis_summary |-> [suspicious_processes |-> Len(sus_procs),
                                    suspicious_commands |-> n_cmds,
                                    suspicious_connections |-> Len(sus_conns)]]

(***************************************************************************)
(* encrypted_detector_simple.py                                            *)
(***************************************************************************)
suspicious_domains == {"malware.com", "evil.org", "bad.net", "suspicious.info"}

suspicious_ports == {4444, 8080, 9999, 1337, 31337}

\* the two regular expressions of dga_patterns, by name
dga_patterns == {"letters8.com", "letters4digits4.net"}

\* a host is the text of its name; a DNS query is the set of dga_patterns
\* that re.search finds in it; a connection is [is_dict, has_port, port]
EncryptedThreatDetector_is_suspicious_domain(domain) == CountIn(suspicious_domains, domain) > 0
is_dga_domain(domain) == CountIn(dga_patterns, domain) > 0
is_suspicious_connection(conn) ==
    conn.is_dict /\ (IF conn.has_port THEN conn.port ELSE 0) \in suspicious_ports

\* thresholds shared by detect_encrypted_threats and detect_social_engineering
Level63(risk_score) ==
    IF RGe(risk_score, Rat(6, 10)) THEN "high"
    ELSE IF RGe(risk_score, Rat(3, 10)) THEN "medium"
    ELSE "low"

\* network_data is [valid, tls_hosts, dns_queries, connections]; valid is
\* false for a value without .get (None, a list): the handler's except runs
detect_encrypted_threats(network_data) ==
    IF ~network_data.valid
    THEN [threats_detected |-> <<>>, threat_types |-> <<>>, threat_level |-> "error",
          overall_risk_score |-> RZero, error |-> "exception"]
    ELSE LET tls_hosts == network_data.tls_hosts
             dns_queries == network_data.dns_queries
             connections == network_data.connections
             sus_hosts == SelectFrom(tls_hosts, EncryptedThreatDetector_is_suspicious_domain, 1)
             dga == SelectFrom(dns_queries, is_dga_domain, 1)
             sus_conns == SelectFrom(connections, is_suspicious_connection, 1)
             threats ==
                 [i \in 1 .. Len(sus_hosts) |->
                     [type |-> "Suspicious TLS Host", details |-> [host |-> sus_hosts[i]],
                      risk_level |-> "medium"]]
                 \o [i \in 1 .. Len(dga) |->
                     [type |-> "DGA Domain", details |-> [domain |-> dga[i]],
                      risk_level |-> "high"]]
                 \o [i \in 1 .. Len(sus_conns) |->
                     [type |-> "Suspicious Connection", details |-> sus_conns[i],
                      risk_level |-> "medium"]]
             \* 0.2 per host, 0.3 per query, 0.1 per connection
             risk_score == Rat(2 * Len(sus_hosts) + 3 * Len(dga) + Len(sus_conns), 10)
         IN  [threats_detected |-> threats,
              threat_types |-> [i \in 1 .. Len(threats) |-> threats[i].type],
              threat_level |-> Level63(risk_score),
              overall_risk_score |-> RMin(RInt(10), RMul(risk_score, RInt(10))),
              analysis_summary |-> [tls_hosts_analyzed |-> Len(tls_hosts),
                                    dns_queries_analyzed |-> Len(dns_queries),
                                    connections_analyzed |-> Len(connections)]]

\* f"Suspicious port: {conn['port']}"
PortIndicator(port) ==
    CASE port = 4444 -> "Suspicious port: 4444"
      [] port = 8080 -> "Suspicious port: 8080"
      [] port = 9999 -> "Suspicious port: 9999"
      [] port = 1337 -> "Suspicious port: 1337"
      [] port = 31337 -> "Suspicious port: 31337"

HasSuspiciousPort(conn) == conn.is_dict /\ conn.has_port /\ conn.port \in suspicious_ports

\* one indicator however many connections use a suspicious port
C2PortIndicators_Once(connections) ==
    LET hits == SelectFrom(connections, HasSuspiciousPort, 1)
    IN  IF Len(hits) > 0 THEN <<PortIndicator(hits[1].port)>> ELSE <<>>

\* the indicators the loop over the connections appends, 0.3 each
C2PortIndicators(connections) ==
    LET hits == SelectFrom(connections, HasSuspiciousPort, 1)
    IN  [i \in 1 .. Len(hits) |-> PortIndicator(hits[i].port)]

detect_c2_communication(network_data) ==
    IF ~network_data.valid
    THEN [c2_detected |-> FALSE, indicators |-> <<>>, risk_score |-> RZero,
          error |-> "exception"]
    ELSE LET connections == network_data.connections
             dns_queries == network_data.dns_queries
             beaconing == IF Len(connections) > 10 THEN <<"High connection count">> ELSE <<>>
             ports == C2PortIndicators(connections)
             exfiltration == IF Len(dns_queries) > 20 THEN <<"High DNS query count">> ELSE <<>>
             c2_indicators == beaconing \o ports \o exfiltration
             \* 0.2 for the connection count, 0.3 per port, 0.2 for the query count
             risk_score == Rat(2 * Len(beaconing) + 3 * Len(ports) + 2 * Len(exfiltration), 10)
         IN  [c2_detected |-> Len(c2_indicators) > 0,
              indicators |-> c2_indicators,
              risk_score |-> RMin(RInt(10), RMul(risk_score, RInt(10)))]

(***************************************************************************)
(* social_engineering_detector_simple.py                                   *)
(***************************************************************************)
urgency_keywords ==
    {"urgent", "immediately", "asap", "expires", "limited time",
     "act now", "don't wait", "last chance", "final notice"}

authority_keywords ==
    {"bank", "paypal", "amazon", "microsoft", "apple", "google",
     "irs", "fbi", "police", "court", "legal", "official"}

suspicious_urls == {"bit.ly", "tinyurl.com", "goo.gl", "t.co", "short.link"}

phishing_indicators ==
    {"verify account", "update information", "suspended account",
     "security breach", "unusual activity", "click here"}

freemail_domains == {"gmail.com", "yahoo.com", "hotmail.com", "outlook.com"}

typosquatting_patterns == {"goog1e", "amaz0n", "paypa1", "micr0soft", "app1e"}

suspicious_tlds == {".tk", ".ml", ".ga", ".cf"}

SocialEngineeringDetector_is_suspicious_domain(domain) == domain \in freemail_domains
is_typosquatting(url) == CountIn(typosquatting_patterns, url.text) > 0

\* A per-part score is a float built by adding 0.2, 0.3 and 0.4 to 0.0.  It
\* is kept, in the part's risk_score too, as <<tenths, err>>: the double is tenths/10 when err = 0, the
\* next double above it when err = 1 and the next one below when err = -1.
\* IEEE-754 addition rounds 0.4 + 0.2 to 0.6000000000000001 and 0.7 + 0.2
\* to 0.8999999999999999; every other sum the parts form is exact.
FAdd(x, inc) ==
    IF x[1] = 4 /\ inc = 2 THEN <<6, 1>>
    ELSE IF x[1] = 7 /\ inc = 2 THEN <<9, 0 - 1>>
    ELSE <<x[1] + inc, x[2]>>

\* x > tenths/10 on such a float
FGt(x, tenths) == x[1] > tenths \/ (x[1] = tenths /\ x[2] > 0)

FAddIf(cond, x, inc) == IF cond THEN FAdd(x, inc) ELSE x

PartLevel(score) ==
    IF FGt(score, 6) THEN "high" ELSE IF FGt(score, 3) THEN "medium" ELSE "low"

PartError == [suspicious |-> FALSE, risk_score |-> <<0, 0>>, risk_level |-> "error",
              error |-> "exception"]

\* an e-mail is [valid, content, subject, sender]: valid is false when a
\* field is no string (the handler's except runs); content and subject are
\* texts; sender is [at, domain], the piece after the first "@"
analyze_email(email_data) ==
    IF ~email_data.valid THEN PartError
    ELSE LET content == email_data.content
             subject == email_data.subject
             sender == email_data.sender
             urgency_count == CountIn(urgency_keywords, content \cup subject)
             authority_count == CountIn(authority_keywords, content \cup subject)
             phishing_count == CountIn(phishing_indicators, content)
             s1 == FAddIf(urgency_count > 0, <<0, 0>>, 2)
             s2 == FAddIf(authority_count > 0, s1, 2)
             s3 == FAddIf(phishing_count > 0, s2, 3)
             risk_score ==
                 FAddIf(sender.at /\ SocialEngineeringDetector_is_suspicious_domain(sender.domain),
                        s3, 2)
         IN  [suspicious |-> FGt(risk_score, 3),
              risk_score |-> risk_score,
              risk_level |-> PartLevel(risk_score),
              urgency_score |-> urgency_count,
              authority_score |-> authority_count,
              phishing_score |-> phishing_count]

\* a URL is [valid, text, tld]: text the watched substrings, tld its suffix
analyze_url(url) ==
    IF ~url.valid THEN PartError
    ELSE LET s1 == FAddIf(CountIn(suspicious_urls, url.text) > 0, <<0, 0>>, 3)
             s2 == FAddIf(is_typosquatting(url), s1, 4)
             risk_score == FAddIf(url.tld \in suspicious_tlds, s2, 2)
         IN  [suspicious |-> FGt(risk_score, 3),
              risk_score |-> risk_score,
              risk_level |-> PartLevel(risk_score),
              url |-> url]

\* free-form content is [valid, text]
analyze_content(content) ==
    IF ~content.valid THEN PartError
    ELSE LET urgency_count == CountIn(urgency_keywords, content.text)
             authority_count == CountIn(authority_keywords, content.text)
             phishing_count == CountIn(phishing_indicators, content.text)
             s1 == FAddIf(urgency_count > 0, <<0, 0>>, 2)
             s2 == FAddIf(authority_count > 0, s1, 2)
             risk_score == FAddIf(phishing_count > 0, s2, 3)
         IN  [suspicious |-> FGt(risk_score, 3),
              risk_score |-> risk_score,
              risk_level |-> PartLevel(risk_score),
              urgency_score |-> urgency_count,
              authority_score |-> authority_count,
              phishing_score |-> phishing_count]

IsSuspiciousPart(part) == part.suspicious
\* what a suspicious part adds to the risk score of the whole, in tenths
PartScoreTenths(part) == IF part.suspicious THEN part.risk_score[1] ELSE 0

\* data is [valid, email, urls, content]: valid is false for a value without
\* .get or with urls that cannot be iterated; email and content are the
\* sequences <<>> (absent or empty) or <<x>>
detect_social_engineering(data) ==
    IF ~data.valid
    THEN [threats_detected |-> <<>>, threat_types |-> <<>>, threat_level |-> "error",
          overall_risk_score |-> RZero, error |-> "exception"]
    ELSE LET email_results == [i \in 1 .. Len(data.email) |-> analyze_email(data.email[i])]
             url_results == [i \in 1 .. Len(data.urls) |-> analyze_url(data.urls[i])]
             content_results == [i \in 1 .. Len(data.content) |-> analyze_content(data.content[i])]
             Threat(kind, part) == [type |-> kind, details |-> part, risk_level |-> part.risk_level]
             sus_email == SelectFrom(email_results, IsSuspiciousPart, 1)
             sus_urls == SelectFrom(url_results, IsSuspiciousPart, 1)
             sus_content == SelectFrom(content_results, IsSuspiciousPart, 1)
             threats ==
                 [i \in 1 .. Len(sus_email) |-> Threat("Suspicious Email", sus_email[i])]
                 \o [i \in 1 .. Len(sus_urls) |-> Threat("Suspicious URL", sus_urls[i])]
                 \o [i \in 1 .. Len(sus_content) |-> Threat("Suspicious Content", sus_content[i])]
             risk_score ==
                 Rat(SumOver(email_results, PartScoreTenths, 1)
                     + SumOver(url_results, PartScoreTenths, 1)
                     + SumOver(content_results, PartScoreTenths, 1), 10)
         IN  [threats_detected |-> threats,
              threat_types |-> [i \in 1 .. Len(threats) |-> threats[i].type],
              threat_level |-> Level63(risk_score),
              overall_risk_score |-> RMin(RInt(10), RMul(risk_score, RInt(10))),
              analysis_summary |-> [email_analyzed |-> Len(data.email) > 0,
                                    urls_analyzed |-> Len(data.urls),
                                    content_analyzed |-> Len(data.content) > 0]]

(***************************************************************************)
(* ensemble_detector_simple.py: detect_threats                             *)
(***************************************************************************)
\* The input bundle `data` is [shape, parts]:
\*   shape "dict": parts maps the keys present to their values;
\*   shape "list": a list (or set, or string) holding the keys of DOMAIN
\*                 parts: `key in data` is true for them, data[key] raises;
\*   shape "none": a value `key in data` raises for (None, a number).
PartKeys == {"file_path", "system_data", "network_data", "communication_data"}

\* the bundle key that makes detect_threats run the module
PartOf(module_name) ==
    CASE module_name \in {"signature", "file_analysis"} -> "file_path"
      [] module_name = "behavioral" -> "system_data"
      [] module_name = "encrypted" -> "network_data"
      [] module_name = "social_engineering" -> "communication_data"

\* the behavioral block running whether or not system_data is present
Has_BehavioralAlways(data, key) == key \in DOMAIN data.parts \/ key = "system_data"

Has(data, key) == key \in DOMAIN data.parts

\* what the module's try block computes; `live` is what
\* collect_behavioral_data() returns during the request
AdapterResult(module_name, data, live) ==
    CASE module_name = "signature" -> SignatureDetector_detect_threats(data.parts["file_path"])
      [] module_name = "file_analysis" -> FileAnalyzer_predict(data.parts["file_path"])
      [] module_name = "behavioral" -> analyze_behavior(live)
      [] module_name = "encrypted" -> detect_encrypted_threats(data.parts["network_data"])
      [] module_name = "social_engineering" ->
             detect_social_engineering(data.parts["communication_data"])

\* one try block around all five modules: a fault in one loses them all
ModuleRaises_SharedTry(module_name, data, raises) ==
    \/ raises # "none"
    \/ data.shape = "list" /\ module_name # "behavioral"

\* the module's try block raises: data[key] on a bundle that is no
\* dictionary, or the adapter itself (`raises` names an adapter that throws)
ModuleRaises(module_name, data, raises) ==
    \/ raises = module_name
    \/ data.shape = "list" /\ module_name # "behavioral"

\* results["module_results"][module_name] after the module's block
ModuleSlot(module_name, data, live, raises) ==
    IF ModuleRaises(module_name, data, raises)
    THEN [error |-> "exception"]
    ELSE AdapterResult(module_name, data, live)

\* the signature and file records appended whenever the result has the key
ModuleThreats_KeyPresent(module_name, slot) ==
    CASE module_name = "signature" ->
             IF "detected" \in DOMAIN slot
             THEN <<[type |-> "Signature Match", details |-> slot, module |-> "signature"]>>
             ELSE <<>>
      [] module_name = "file_analysis" ->
             IF "prediction" \in DOMAIN slot
             THEN <<[type |-> "File-based Threat", details |-> slot, module |-> "file_analysis"]>>
             ELSE <<>>
      [] OTHER -> Get(slot, "threats_detected", <<>>)

\* the records the module's block appends to results["threats_detected"]
ModuleThreats(module_name, slot) ==
    CASE module_name = "signature" ->
             IF Get(slot, "detected", FALSE)
             THEN <<[type |-> "Signature Match", details |-> slot, module |-> "signature"]>>
             ELSE <<>>
      [] module_name = "file_analysis" ->
             IF Get(slot, "prediction", NoneValue) \in {"malicious", "suspicious"}
             THEN <<[type |-> "File-based Threat", details |-> slot, module |-> "file_analysis"]>>
             ELSE <<>>
      [] OTHER -> Get(slot, "threats_detected", <<>>)

\* the strings the module's block appends to results["threat_types"]
ModuleThreatTypes(module_name, slot) ==
    CASE module_name = "signature" ->
             IF Get(slot, "detected", FALSE) THEN <<"Signature Match">> ELSE <<>>
      [] module_name = "file_analysis" ->
             IF Get(slot, "prediction", NoneValue) \in {"malicious", "suspicious"}
             THEN <<"File-based Threat">> ELSE <<>>
      [] OTHER ->
             IF Len(Get(slot, "threats_detected", <<>>)) > 0
             THEN Get(slot, "threat_types", <<>>) ELSE <<>>

\* the modules whose block runs, in invocation order
Applicable(data) == SelectSeq(ModuleOrder, LAMBDA m : Has(data, PartOf(m)))

RECURSIVE ConcatOver(_, _, _)
ConcatOver(seq, f(_), i) ==
    IF i > Len(seq) THEN <<>> ELSE f(seq[i]) \o ConcatOver(seq, f, i + 1)

\* a missing overall_risk_score read as 1.0 instead of 0.0
RiskContribution_DefaultOne(module_name, module_result) ==
    IF "error" \in DOMAIN module_result THEN RZero
    ELSE CASE module_name = "signature" ->
                  IF Get(module_result, "detected", FALSE)
                  THEN RMul(Get(module_result, "confidence", RZero), RInt(10))
                  ELSE RZero
           [] module_name = "file_analysis" ->
                  IF Get(module_result, "prediction", NoneValue) \in {"malicious", "suspicious"}
                  THEN RMul(Get(module_result, "confidence", RZero), RInt(10))
                  ELSE RZero
           [] module_name \in {"behavioral", "encrypted", "social_engineering"} ->
                  Get(module_result, "overall_risk_score", ROne)
           [] OTHER -> RZero

\* what a module adds to total_risk_score, before weighting
RiskContribution(module_name, module_result) ==
    IF "error" \in DOMAIN module_result THEN RZero
    ELSE CASE module_name = "signature" ->
                  IF Get(module_result, "detected", FALSE)
                  THEN RMul(Get(module_result, "confidence", RZero), RInt(10))
                  ELSE RZero
           [] module_name = "file_analysis" ->
                  IF Get(module_result, "prediction", NoneValue) \in {"malicious", "suspicious"}
                  THEN RMul(Get(module_result, "confidence", RZero), RInt(10))
                  ELSE RZero
           [] module_name \in {"behavioral", "encrypted", "social_engineering"} ->
                  Get(module_result, "overall_risk_score", RZero)
           [] OTHER -> RZero

\* the risk score added to the confidence without the division by 10
ConfidenceContribution_NoScale(module_name, module_result) ==
    IF "error" \in DOMAIN module_result THEN RZero
    ELSE CASE module_name = "signature" ->
                  IF Get(module_result, "detected", FALSE)
                  THEN Get(module_result, "confidence", RZero)
                  ELSE RZero
           [] module_name = "file_analysis" ->
                  IF Get(module_result, "prediction", NoneValue) \in {"malicious", "suspicious"}
                  THEN Get(module_result, "confidence", RZero)
                  ELSE RZero
           [] module_name \in {"behavioral", "encrypted", "social_engineering"} ->
                  Get(module_result, "overall_risk_score", RZero)
           [] OTHER -> RZero

\* what a module adds to total_confidence, before weighting
ConfidenceContribution(module_name, module_result) ==
    IF "error" \in DOMAIN module_result THEN RZero
    ELSE CASE module_name = "signature" ->
                  IF Get(module_result, "detected", FALSE)
                  THEN Get(module_result, "confidence", RZero)
                  ELSE RZero
           [] module_name = "file_analysis" ->
                  IF Get(module_result, "prediction", NoneValue) \in {"malicious", "suspicious"}
                  THEN Get(module_result, "confidence", RZero)
                  ELSE RZero
           [] module_name \in {"behavioral", "encrypted", "social_engineering"} ->
                  RDiv(Get(module_result, "overall_risk_score", RZero), RInt(10))
           [] OTHER -> RZero

\* the loop over self.detection_weights.items()
RECURSIVE WeightedSum(_, _, _, _)
WeightedSum(weights, module_results, Contribution(_, _), names) ==
    IF names = {} THEN RZero
    ELSE LET module_name == CHOOSE n \in names : TRUE
             module_result == Get(module_results, module_name, EmptyDict)
         IN  RAdd(RMul(weights[module_name], Contribution(module_name, module_result)),
                  WeightedSum(weights, module_results, Contribution, names \ {module_name}))

\* the thresholds read as strict
ThreatLevel_Strict(total_risk_score) ==
    IF RGt(total_risk_score, RInt(7)) THEN "high"
    ELSE IF RGt(total_risk_score, RInt(4)) THEN "medium"
    ELSE "low"

ThreatLevel(total_risk_score) ==
    IF RGe(total_risk_score, RInt(7)) THEN "high"
    ELSE IF RGe(total_risk_score, RInt(4)) THEN "medium"
    ELSE "low"

\* the weights left out of the loop: every contribution counted in full
EnsembleTotals_Unweighted(weights, module_results) ==
    [total_risk_score |->
        WeightedSum([k \in DOMAIN weights |-> ROne], module_results, RiskContribution,
                    DOMAIN weights),
     total_confidence |->
        WeightedSum([k \in DOMAIN weights |-> ROne], module_results, ConfidenceContribution,
                    DOMAIN weights)]

\* total_risk_score and total_confidence after the loop
EnsembleTotals(weights, module_results) ==
    [total_risk_score |->
        WeightedSum(weights, module_results, RiskContribution, DOMAIN weights),
     total_confidence |->
        WeightedSum(weights, module_results, ConfidenceContribution, DOMAIN weights)]

\* the confidence returned without its clamp at 1.0
calculate_ensemble_decision_ClampRiskOnly(weights, results) ==
    LET total_risk_score == EnsembleTotals(weights, results.module_results).total_risk_score
        total_confidence == EnsembleTotals(weights, results.module_results).total_confidence
    IN  [overall_risk_score |-> RMin(RInt(10), total_risk_score),
         threat_level |-> ThreatLevel(total_risk_score),
         confidence |-> total_confidence,
         threat_count |-> Len(results.threats_detected)]

calculate_ensemble_decision(weights, results) ==
    LET total_risk_score == EnsembleTotals(weights, results.module_results).total_risk_score
        total_confidence == EnsembleTotals(weights, results.module_results).total_confidence
    IN  [overall_risk_score |-> RMin(RInt(10), total_risk_score),
         threat_level |-> ThreatLevel(total_risk_score),
         confidence |-> RMin(ROne, total_confidence),
         threat_count |-> Len(results.threats_detected)]

\* the verdict of the outer except of detect_threats
ErrorVerdict ==
    [threats_detected |-> <<>>, threat_types |-> <<>>, overall_risk_score |-> RZero,
     threat_level |-> "error", confidence |-> RZero, error |-> "exception"]

DetectThreats(weights, data, live, raises) ==
    IF data.shape = "none" THEN ErrorVerdict
    ELSE LET applicable == Applicable(data)
             slots == [m \in {applicable[i] : i \in 1 .. Len(applicable)} |->
                          ModuleSlot(m, data, live, raises)]
             ThreatsOf(m) == ModuleThreats(m, slots[m])
             TypesOf(m) == ModuleThreatTypes(m, slots[m])
             results == [threats_detected |-> ConcatOver(applicable, ThreatsOf, 1),
                         threat_types |-> ConcatOver(applicable, TypesOf, 1),
                         module_results |-> slots]
             ensemble_decision == calculate_ensemble_decision(weights, results)
         IN  [threats_detected |-> results.threats_detected,
              threat_types |-> results.threat_types,
              overall_risk_score |-> ensemble_decision.overall_risk_score,
              threat_level |-> ensemble_decision.threat_level,
              confidence |-> ensemble_decision.confidence,
              module_results |-> results.module_results,
              threat_count |-> ensemble_decision.threat_count]

detect_threats(data, live, raises) ==
    /\ op' = "detect"
    /\ arg' = [data |-> data, live |-> live, raises |-> raises]
    /\ ret' = DetectThreats(detection_weights, data, live, raises)
    /\ totals' = IF "module_results" \in DOMAIN ret'
                 THEN EnsembleTotals(detection_weights, ret'.module_results)
                 ELSE <<>>
    /\ UNCHANGED detection_weights

(***************************************************************************)
(* ensemble_detector_simple.py: detect_advanced_threats                    *)
(***************************************************************************)
script_hosts == {"powershell.exe", "wscript.exe", "cscript.exe"}

IsScriptHost(proc) == Lower(proc.name) \in script_hosts

AdvancedError == [advanced_threats |-> <<>>, threat_count |-> 0, error |-> "exception"]

\* live1 and live2 are what the two calls of collect_behavioral_data() return
DetectAdvancedThreats(data, live1, live2) ==
    IF data.shape = "none" THEN AdvancedError
    ELSE IF Has(data, "system_data")
            /\ \E i \in 1 .. Len(live2.processes) : live2.processes[i].name = NoneValue
    THEN AdvancedError
    ELSE IF Has(data, "network_data") /\ data.shape = "list"
    THEN AdvancedError
    ELSE LET behavioral_result == analyze_behavior(live1)
             zero_day ==
                 IF Has(data, "system_data") /\ behavioral_result.threat_level = "high"
                 THEN <<[type |-> "Zero-day Exploit", confidence |-> Rat(7, 10),
                         indicators |-> behavioral_result.threats_detected]>>
                 ELSE <<>>
             hosts == IF Has(data, "system_data")
                      THEN SelectFrom(live2.processes, IsScriptHost, 1)
                      ELSE <<>>
             fileless ==
                 [i \in 1 .. Len(hosts) |->
                     [type |-> "Fileless Malware", confidence |-> Rat(6, 10),
                      indicators |-> <<[process |-> hosts[i].name,
                                        cmdline |-> hosts[i].cmdline]>>]]
             encrypted_result == detect_encrypted_threats(data.parts["network_data"])
             encrypted ==
                 IF Has(data, "network_data") /\ encrypted_result.threat_level = "high"
                 THEN <<[type |-> "Encrypted Malware", confidence |-> Rat(8, 10),
                         indicators |-> encrypted_result.threats_detected]>>
                 ELSE <<>>
             advanced_threats == zero_day \o fileless \o encrypted
         IN  [advanced_threats |-> advanced_threats,
              threat_count |-> Len(advanced_threats)]

detect_advanced_threats(data, live1, live2) ==
    /\ op' = "detect_advanced"
    /\ arg' = [data |-> data, live1 |-> live1, live2 |-> live2]
    /\ ret' = DetectAdvancedThreats(data, live1, live2)
    /\ totals' = <<>>
    /\ UNCHANGED detection_weights

(***************************************************************************)
(* The requests the model issues.                                          *)
(***************************************************************************)
TextFile(size, ext, strings) == [kind |-> "text", size |-> size, ext |-> ext, strings |-> strings]

\* file_path values: a path without a file, a script with two rule strings
Files ==
    {[kind |-> "missing", size |-> 0, ext |-> ".txt", strings |-> {}],
     TextFile(300, ".ps1", {"powershell", "downloadstring"})}

Proc(name, cmdline) == [name |-> name, cmdline |-> cmdline]
Conn(remote_address, port) == [remote_address |-> remote_address, port |-> port]

\* process and connection snapshots: a shell running a download cradle with
\* a peer on port 4444, and a snapshot with a process psutil may not inspect
Snapshots ==
    {[processes |-> <<Proc("PowerShell.EXE", {"downloadstring", "iex"})>>,
      network_connections |-> <<Conn("ipv4", 4444)>>],
     [processes |-> <<Proc("bash", {}), Proc(NoneValue, NoCmdline)>>,
      network_connections |-> <<>>]}

NetConn(port) == [is_dict |-> TRUE, has_port |-> TRUE, port |-> port]

NetworkData ==
    {[valid |-> TRUE, tls_hosts |-> <<{"evil.org"}, {}>>,
      dns_queries |-> <<{"letters8.com"}, {"letters4digits4.net"}>>,
      connections |-> <<NetConn(4444), NetConn(443)>>]}

Email(content, subject, sender) ==
    [valid |-> TRUE, content |-> content, subject |-> subject, sender |-> sender]

CommunicationData ==
    {[valid |-> TRUE,
      email |-> <<Email({"click here"}, {"urgent", "immediately", "paypal"},
                        [at |-> TRUE, domain |-> "gmail.com"])>>,
      urls |-> <<[valid |-> TRUE, text |-> {"bit.ly"}, tld |-> ".tk"]>>,
      content |-> <<[valid |-> TRUE, text |-> {"bank"}]>>]}

\* the system_data a caller passes: a snapshot taken earlier
SystemData == {[processes |-> <<Proc("bash", {})>>, network_connections |-> <<>>]}

PartValues(key) ==
    CASE key = "file_path" -> Files
      [] key = "system_data" -> SystemData
      [] key = "network_data" -> NetworkData
      [] key = "communication_data" -> CommunicationData

\* the entry of one key in a dictionary bundle: absent, or one of its values
Entries(key) == {EmptyDict} \cup {key :> v : v \in PartValues(key)}

\* a list bundle holds key names only; its parts are never read
ListEntries(key) == {EmptyDict, key :> CHOOSE v \in PartValues(key) : TRUE}

\* every dictionary bundle over the part values, every list of part keys,
\* and a bundle that is no container
Bundles ==
    {[shape |-> "dict", parts |-> f @@ s @@ n @@ c] :
        f \in Entries("file_path"), s \in Entries("system_data"),
        n \in Entries("network_data"), c \in Entries("communication_data")}
    \cup {[shape |-> "list", parts |-> f @@ s @@ n @@ c] :
        f \in ListEntries("file_path"), s \in ListEntries("system_data"),
        n \in ListEntries("network_data"), c \in ListEntries("communication_data")}
    \cup {[shape |-> "none", parts |-> EmptyDict]}

\* the snapshot the analyzer collects when it is asked to
NoSnapshot == [processes |-> <<>>, network_connections |-> <<>>]
LiveFor(data) == IF data.shape # "none" /\ Has(data, "system_data") THEN Snapshots ELSE {NoSnapshot}

\* the adapter that throws during the request, if any
RaisesFor(data) ==
    {"none"} \cup (IF data.shape = "dict" THEN {m \in Modules : Has(data, PartOf(m))} ELSE {})

Init ==
    /\ detection_weights = DefaultWeights
    /\ op = "init"
    /\ arg = <<>>
    /\ ret = <<>>
    /\ totals = <<>>

\* detect_advanced_threats reads the system_data and network_data keys only
AdvancedBundles == {d \in Bundles : DOMAIN d.parts \subseteq {"system_data", "network_data"}}

Next ==
    \/ \E nw \in NewWeightsInputs : update_detection_weights(nw)
    \/ \E data \in Bundles : \E live \in LiveFor(data) : \E raises \in RaisesFor(data) :
          detect_threats(data, live, raises)
    \/ \E data \in AdvancedBundles : \E live1 \in LiveFor(data) : \E live2 \in LiveFor(data) :
          detect_advanced_threats(data, live1, live2)

Spec == Init /\ [][Next]_vars

(***************************************************************************)
(* The detector modules on their own: each call of an adapter on an input. *)
(***************************************************************************)
\* the patterns of the file analyzer that are no rule strings, in list order
OtherPatterns == <<"invoke-expression", "regsvr32", "rundll32", "wscript", "cscript", "mshta">>

\* files for the adapters: every kind, and text files holding any of the rule
\* strings together with the first n other patterns (0 to 9 patterns in all)
AdapterFiles ==
    {[kind |-> k, size |-> 2000, ext |-> e, strings |-> {}] :
        k \in {"invalid", "missing", "unreadable"}, e \in {".txt", ".exe"}}
    \cup {TextFile(0, ".txt", {})}
    \cup {TextFile(300, ".ps1", rule \cup {OtherPatterns[i] : i \in 1 .. n}) :
             rule \in SUBSET yara_strings, n \in 0 .. Len(OtherPatterns)}

signature_detect_threats(file) ==
    /\ op' = "signature.detect_threats"
    /\ arg' = file
    /\ ret' = SignatureDetector_detect_threats(file)
    /\ UNCHANGED <<detection_weights, totals>>

file_analyzer_predict(file) ==
    /\ op' = "file_analyzer.predict"
    /\ arg' = file
    /\ ret' = FileAnalyzer_predict(file)
    /\ UNCHANGED <<detection_weights, totals>>

\* e-mails for the adapter: keywords of each list in the subject, in the
\* content or in neither; a sender without "@", at another domain, at a
\* listed one; and an e-mail whose fields are no strings
AdapterEmails ==
    {Email(content, subject, sender) :
        content \in {{}, {"click here"}, {"bank"}, {"click here", "asap"}},
        subject \in {{}, {"urgent"}, {"paypal"}, {"urgent", "immediately", "paypal"},
                     {"verify account"}},
        sender \in {[at |-> FALSE, domain |-> ""], [at |-> TRUE, domain |-> "example.org"],
                    [at |-> TRUE, domain |-> "gmail.com"]}}
    \cup {[valid |-> FALSE, content |-> {}, subject |-> {},
           sender |-> [at |-> FALSE, domain |-> ""]]}

social_analyze_email(email_data) ==
    /\ op' = "social.analyze_email"
    /\ arg' = email_data
    /\ ret' = analyze_email(email_data)
    /\ UNCHANGED <<detection_weights, totals>>

\* a list of n items x
Repeat(x, n) == [i \in 1 .. n |-> x]

\* the connections heading a snapshot: none, suspicious ports, a harmless
\* port, a connection that is no dictionary, a dictionary without a port
LeadingConnections ==
    {<<>>, <<NetConn(4444)>>, <<NetConn(31337), NetConn(8080)>>,
     <<NetConn(4444), NetConn(4444), NetConn(1337), NetConn(9999)>>,
     <<NetConn(80)>>,
     <<[is_dict |-> FALSE, has_port |-> FALSE, port |-> 4444],
       [is_dict |-> TRUE, has_port |-> FALSE, port |-> 4444]>>}

\* network snapshots for the C2 check: connection and query counts at and
\* around the limits 10 and 20, and a value that is no dictionary
C2Snapshots ==
    {[valid |-> TRUE, tls_hosts |-> <<>>,
      dns_queries |-> Repeat({}, q),
      connections |-> lead \o Repeat(NetConn(443), IF n > Len(lead) THEN n - Len(lead) ELSE 0)] :
        lead \in LeadingConnections, n \in {0, 10, 11, 15}, q \in {0, 20, 21, 25}}
    \cup {[valid |-> FALSE, tls_hosts |-> <<>>, dns_queries |-> <<>>, connections |-> <<>>]}

encrypted_detect_c2_communication(network_data) ==
    /\ op' = "encrypted.detect_c2_communication"
    /\ arg' = network_data
    /\ ret' = detect_c2_communication(network_data)
    /\ UNCHANGED <<detection_weights, totals>>

AdapterNext ==
    \/ \E file \in AdapterFiles : signature_detect_threats(file)
    \/ \E network_data \in C2Snapshots : encrypted_detect_c2_communication(network_data)
    \/ \E file \in AdapterFiles : file_analyzer_predict(file)
    \/ \E email_data \in AdapterEmails : social_analyze_email(email_data)

AdapterSpec == Init /\ [][AdapterNext]_vars


(***************************************************************************)
(* Properties.                                                             *)
(***************************************************************************)
\* the built-in weights as the documentation lists them
BuiltInDefaults ==
    ("signature" :> <<1, 4>>) @@ ("file_analysis" :> <<1, 5>>) @@ ("behavioral" :> <<1, 5>>)
    @@ ("encrypted" :> <<3, 20>>) @@ ("social_engineering" :> <<1, 5>>)

\* detect_threats returned from its normal path
NormalVerdict == op = "detect" /\ "module_results" \in DOMAIN ret

\* the module a threat record comes from: its module field, or its type
OriginOf(record) ==
    IF "module" \in DOMAIN record THEN record.module
    ELSE CASE record.type \in {"Suspicious Process", "Suspicious Commands", "Suspicious Network"}
                 -> "behavioral"
           [] record.type \in {"Suspicious TLS Host", "DGA Domain", "Suspicious Connection"}
                 -> "encrypted"
           [] record.type \in {"Suspicious Email", "Suspicious URL", "Suspicious Content"}
                 -> "social_engineering"
           [] OTHER -> "unknown"

ErrorMarked(slot) == "error" \in DOMAIN slot

\* C1: after update_weights(W) with sum(W) > 0 the weights have exactly the
\* keys of W, each entry is W[k]/sum(W) and the entries sum to 1; with
\* sum(W) <= 0 (the empty set included) the weights are the built-in defaults.
C1_UpdateWeightsContract ==
    (op = "update_weights" /\ arg.numeric) =>
        LET W == arg.w
            total == SumInt(W, DOMAIN W)
        IN  IF total > 0
            THEN /\ DOMAIN detection_weights = DOMAIN W
                 /\ \A k \in DOMAIN W :
                       RMul(detection_weights[k], RInt(total)) = RInt(W[k])
                 /\ SumRat(detection_weights, DOMAIN detection_weights) = ROne
            ELSE detection_weights = BuiltInDefaults

\* an update with two unequal weights whose sum is not 1
C1_Witness ==
    /\ op = "update_weights" /\ arg.numeric
    /\ Cardinality(DOMAIN arg.w) = 2
    /\ SumInt(arg.w, DOMAIN arg.w) > 1
    /\ \E j, k \in DOMAIN arg.w : arg.w[j] < arg.w[k]

\* C2: in every state reachable by update_weights, detect and detect_advanced
\* calls (degenerate and unusable weight sets included) the weights detect
\* reads sum to 1.
C2_WeightsSumToOne == SumRat(detection_weights, DOMAIN detection_weights) = ROne

\* a detect call reading weights an earlier update installed
C2_Witness ==
    /\ op = "detect"
    /\ DOMAIN detection_weights # Modules
    /\ NormalVerdict /\ RGt(totals.total_risk_score, RZero)

\* C3: a bundle with none of the four parts yields, under any weights, a
\* verdict with no threat records, no threat types, risk score 0.0, threat
\* level "low", confidence 0.0, threat count 0 and empty module_results.
C3_EmptyBundleVerdict ==
    (op = "detect" /\ arg.data.shape \in {"dict", "list"} /\ DOMAIN arg.data.parts = {}) =>
        /\ ret.threats_detected = <<>>
        /\ ret.threat_types = <<>>
        /\ ret.overall_risk_score = RZero
        /\ ret.threat_level = "low"
        /\ ret.confidence = RZero
        /\ ret.threat_count = 0
        /\ DOMAIN ret.module_results = {}

\* an empty bundle judged under weights that are not the defaults
C3_Witness ==
    /\ op = "detect" /\ arg.data.shape = "dict" /\ DOMAIN arg.data.parts = {}
    /\ \E k \in DOMAIN detection_weights : RLt(detection_weights[k], RZero)

\* the modules whose block raised during the last detect request
FaultingModules ==
    IF arg.raises # "none" THEN {arg.raises}
    ELSE IF arg.data.shape = "list"
    THEN {m \in Modules \ {"behavioral"} : PartOf(m) \in DOMAIN arg.data.parts}
    ELSE {}

\* the applicable modules other than m, in invocation order
OthersOf(m) ==
    SelectSeq(ModuleOrder, LAMBDA n : n # m /\ PartOf(n) \in DOMAIN arg.data.parts)

\* C4: when a single adapter raises during a detect request, detect still
\* returns a verdict, that module's slot holds an error marker, and every
\* other applicable module's result, threat records and weighted contribution
\* are what they would be had the faulting module not been applicable.
C4_FaultIsolation ==
    (op = "detect" /\ arg.data.shape # "none" /\ Cardinality(FaultingModules) = 1) =>
        LET m == CHOOSE x \in FaultingModules : TRUE
            others == OthersOf(m)
            otherSet == {others[i] : i \in 1 .. Len(others)}
            Result(n) == AdapterResult(n, arg.data, arg.live)
            Records(n) == ModuleThreats(n, Result(n))
            weighted == [n \in otherSet \cap DOMAIN detection_weights |->
                            RMul(detection_weights[n], RiskContribution(n, Result(n)))]
            without == [shape |-> arg.data.shape,
                        parts |-> [k \in DOMAIN arg.data.parts \ {PartOf(m)} |-> arg.data.parts[k]]]
            reference == DetectThreats(detection_weights, without, arg.live, "none")
        IN  /\ NormalVerdict
            /\ "error" \notin DOMAIN ret
            /\ ErrorMarked(ret.module_results[m])
            /\ \A n \in otherSet : ret.module_results[n] = Result(n)
            /\ ret.threats_detected = ConcatOver(others, Records, 1)
            /\ totals.total_risk_score = SumRat(weighted, DOMAIN weighted)
            /\ (arg.data.shape = "dict" /\ m \notin {"signature", "file_analysis"}) =>
                  /\ ret.threats_detected = reference.threats_detected
                  /\ ret.threat_types = reference.threat_types
                  /\ ret.overall_risk_score = reference.overall_risk_score
                  /\ ret.confidence = reference.confidence
                  /\ ret.threat_level = reference.threat_level
                  /\ \A n \in DOMAIN reference.module_results :
                        ret.module_results[n] = reference.module_results[n]

\* one adapter threw while three other modules found threats
C4_Witness ==
    /\ op = "detect" /\ arg.data.shape = "dict" /\ arg.raises # "none"
    /\ NormalVerdict
    /\ Cardinality(DOMAIN ret.module_results) = 5
    /\ Cardinality({OriginOf(ret.threats_detected[i]) : i \in 1 .. Len(ret.threats_detected)}) >= 3
    /\ RGt(totals.total_risk_score, RZero)

\* C5: a module whose slot carries an error marker, written by the adapter or
\* by the coordinator, adds nothing to the risk score or the confidence, and
\* no threat record of the verdict comes from it.
C5_ErrorSlotSilent ==
    NormalVerdict =>
        LET failed == {m \in DOMAIN ret.module_results : ErrorMarked(ret.module_results[m])}
            kept == [m \in DOMAIN ret.module_results \ failed |-> ret.module_results[m]]
        IN  /\ \A i \in 1 .. Len(ret.threats_detected) :
                  OriginOf(ret.threats_detected[i]) \notin failed
            /\ totals = EnsembleTotals(detection_weights, kept)
            /\ \A m \in failed \cap DOMAIN detection_weights :
                  /\ RiskContribution(m, ret.module_results[m]) = RZero
                  /\ ConfidenceContribution(m, ret.module_results[m]) = RZero

\* a verdict with an adapter-made error (file not found) next to a
\* coordinator-made one, and other modules contributing
C5_Witness ==
    /\ NormalVerdict
    /\ "signature" \in DOMAIN ret.module_results
    /\ "detected" \in DOMAIN ret.module_results["signature"]
    /\ ErrorMarked(ret.module_results["signature"])
    /\ \E m \in DOMAIN ret.module_results : DOMAIN ret.module_results[m] = {"error"}
    /\ Len(ret.threats_detected) > 0

\* C6: the keys of module_results depend on the parts present alone:
\* signature and file_analysis iff file_path, behavioral iff system_data,
\* encrypted iff network_data, social_engineering iff communication_data; a
\* bundle with only network_data has the encrypted slot alone.
C6_SlotsFollowParts ==
    (op = "detect" /\ arg.data.shape # "none") =>
        LET present == DOMAIN arg.data.parts
            slots == DOMAIN ret.module_results
        IN  /\ NormalVerdict
            /\ slots \subseteq Modules
            /\ ("signature" \in slots) = ("file_path" \in present)
            /\ ("file_analysis" \in slots) = ("file_path" \in present)
            /\ ("behavioral" \in slots) = ("system_data" \in present)
            /\ ("encrypted" \in slots) = ("network_data" \in present)
            /\ ("social_engineering" \in slots) = ("communication_data" \in present)
            /\ (present = {"network_data"}) => (slots = {"encrypted"})

\* a dictionary with network_data only, judged without any fault
C6_Witness ==
    /\ op = "detect" /\ arg.data.shape = "dict" /\ arg.raises = "none"
    /\ DOMAIN arg.data.parts = {"network_data"}
    /\ DOMAIN ret.module_results = {"encrypted"}
    /\ Len(ret.threat_types) > 0

\* the contribution of a module as the documentation states it
StatedContribution(module_name, module_result) ==
    CASE module_name = "signature" ->
             IF "detected" \in DOMAIN module_result /\ module_result.detected
             THEN RMul(module_result.confidence, RInt(10)) ELSE RZero
      [] module_name = "file_analysis" ->
             IF "prediction" \in DOMAIN module_result
                /\ module_result.prediction \in {"malicious", "suspicious"}
             THEN RMul(module_result.confidence, RInt(10)) ELSE RZero
      [] OTHER -> module_result.overall_risk_score

\* the weighted modules that produced a result without an error marker
Contributing ==
    {m \in DOMAIN detection_weights \cap DOMAIN ret.module_results :
        ~ErrorMarked(ret.module_results[m])}

StatedRisk ==
    LET terms == [m \in Contributing |->
                     RMul(detection_weights[m], StatedContribution(m, ret.module_results[m]))]
    IN  SumRat(terms, Contributing)

StatedConfidence ==
    LET terms == [m \in Contributing |->
                     RMul(detection_weights[m],
                          RDiv(StatedContribution(m, ret.module_results[m]), RInt(10)))]
    IN  SumRat(terms, Contributing)

\* C7: the accumulated weighted risk is the sum, over the weighted modules
\* with a non-error result, of weight x contribution (confidence x 10 of a
\* positive signature or file verdict, the module's own overall_risk_score
\* for the other three); the accumulated confidence is the same sum with
\* every contribution divided by 10.
C7_WeightedSums ==
    NormalVerdict =>
        /\ totals.total_risk_score = StatedRisk
        /\ totals.total_confidence = StatedConfidence

\* all five modules contribute under weights an update installed
C7_Witness ==
    /\ NormalVerdict
    /\ Cardinality({m \in DOMAIN ret.module_results :
                       ~ErrorMarked(ret.module_results[m])
                       /\ RGt(StatedContribution(m, ret.module_results[m]), RZero)}) = 5
    /\ DOMAIN detection_weights # Modules
    /\ RGt(totals.total_risk_score, RZero)

\* C8: for accumulated risk r and confidence c the threat level is "high" if
\* r >= 7.0, "medium" if 4.0 <= r < 7.0, else "low"; the overall risk score
\* is min(10.0, r) and the confidence min(1.0, c).
C8_LevelAndClamps ==
    NormalVerdict =>
        LET r == totals.total_risk_score
            c == totals.total_confidence
        IN  /\ ret.threat_level =
                  (IF r[1] >= 7 * r[2] THEN "high"
                   ELSE IF r[1] >= 4 * r[2] THEN "medium" ELSE "low")
            /\ ret.overall_risk_score = (IF r[1] > 10 * r[2] THEN <<10, 1>> ELSE r)
            /\ ret.confidence = (IF c[1] > c[2] THEN <<1, 1>> ELSE c)

\* an accumulated risk of exactly 4.0 is judged "medium"
C8_Witness ==
    /\ NormalVerdict
    /\ totals.total_risk_score = <<4, 1>>
    /\ ret.threat_level = "medium"

\* C9: every verdict of detect, for every bundle (malformed ones included)
\* and after any update_weights calls, has a risk score in [0.0, 10.0], a
\* confidence in [0.0, 1.0] and a threat level among low, medium, high.
C9_VerdictRanges ==
    (op = "detect") =>
        /\ RLe(RZero, ret.overall_risk_score) /\ RLe(ret.overall_risk_score, RInt(10))
        /\ RLe(RZero, ret.confidence) /\ RLe(ret.confidence, ROne)
        /\ ret.threat_level \in {"low", "medium", "high"}

\* C10 as stated: for an existing readable file, a content hash in the
\* signature table gives detected with confidence 0.95 and the table's
\* label; otherwise two or more suspicious strings give detected with
\* confidence 0.8 and method "rule-match"; otherwise not detected, 0.0.
C10_SignatureAsStated ==
    (op = "signature.detect_threats" /\ arg.kind = "text") =>
        IF Sha256Hex(arg) \in DOMAIN signature_database
        THEN /\ ret.detected /\ ret.confidence = <<19, 20>>
             /\ ret.threat_type = signature_database[Sha256Hex(arg)]
        ELSE IF Cardinality(arg.strings \cap {"cmd.exe", "powershell", "downloadstring"}) >= 2
        THEN ret.detected /\ ret.confidence = <<4, 5>> /\ ret.method = "rule-match"
        ELSE ~ret.detected /\ ret.confidence = <<0, 1>>

\* C10: as stated, with the method of a rule match reported as "yara".
C10_SignatureResult ==
    (op = "signature.detect_threats" /\ arg.kind = "text") =>
        IF Sha256Hex(arg) \in DOMAIN signature_database
        THEN /\ ret.detected /\ ret.confidence = <<19, 20>>
             /\ ret.threat_type = signature_database[Sha256Hex(arg)]
        ELSE IF Cardinality(arg.strings \cap {"cmd.exe", "powershell", "downloadstring"}) >= 2
        THEN ret.detected /\ ret.confidence = <<4, 5>> /\ ret.method = "yara"
        ELSE ~ret.detected /\ ret.confidence = <<0, 1>>

\* a readable file without a table hash that holds two of the three strings
C10_Witness ==
    /\ op = "signature.detect_threats" /\ arg.kind = "text"
    /\ Sha256Hex(arg) \notin DOMAIN signature_database
    /\ Cardinality(arg.strings \cap {"cmd.exe", "powershell", "downloadstring"}) = 2
    /\ ret.detected /\ ret.method = "yara"

\* C11: for an existing text file holding k of the 9 malicious patterns
\* (threat score k/9) the prediction is "malicious" with confidence
\* min(0.9, 0.5 + 0.4 x score) iff score > 0.3, "suspicious" with confidence
\* 0.6 iff 0.1 < score <= 0.3, "benign" with confidence 0.8 iff score <= 0.1;
\* a score of exactly 0.3 is not malicious, one of exactly 0.1 not suspicious.
C11_FileThresholds ==
    /\ (op = "file_analyzer.predict" /\ arg.kind = "text") =>
          LET k == Cardinality(arg.strings \cap
                       {"cmd.exe", "powershell", "downloadstring", "invoke-expression",
                        "regsvr32", "rundll32", "wscript", "cscript", "mshta"})
              \* score = k/9; 0.5 + 0.4 x score = (45 + 4k)/90, at most 0.9
              stated == IF 45 + 4 * k > 81 THEN 81 ELSE 45 + 4 * k
          IN  /\ ret.prediction \in {"malicious", "suspicious", "benign"}
              /\ (ret.prediction = "malicious") = (10 * k > 3 * 9)
              /\ (ret.prediction = "suspicious") = (10 * k > 9 /\ 10 * k <= 3 * 9)
              /\ (ret.prediction = "benign") = (10 * k <= 9)
              /\ (ret.prediction = "malicious") =>
                    ret.confidence[1] * 90 = stated * ret.confidence[2]
              /\ (ret.prediction = "suspicious") => ret.confidence = <<3, 5>>
              /\ (ret.prediction = "benign") => ret.confidence = <<4, 5>>
    /\ ClassifyScore(<<3, 10>>)[1] = "suspicious"
    /\ ClassifyScore(<<1, 10>>)[1] = "benign"

\* a text file with three patterns: the smallest score above 0.3
C11_Witness ==
    /\ op = "file_analyzer.predict" /\ arg.kind = "text"
    /\ Cardinality(arg.strings) = 3
    /\ ret.prediction = "malicious"
    /\ ret.confidence = <<19, 30>>

\* C12: an e-mail scores 0.2 for an urgency keyword in subject or content,
\* plus 0.2 for an authority keyword there, plus 0.3 for a phishing indicator,
\* plus 0.2 for a sender domain of the freemail list; it is suspicious iff
\* the score is above 0.3, its risk level is "high" iff the score is above
\* 0.6, "medium" iff 0.3 < score <= 0.6, else "low"; with all four checks
\* firing the score is 0.9, the e-mail suspicious and the level "high".
C12_EmailScore ==
    (op = "social.analyze_email" /\ arg.valid) =>
        LET text == arg.content \cup arg.subject
            urgency == text \cap {"urgent", "immediately", "asap", "expires", "limited time",
                                  "act now", "don't wait", "last chance", "final notice"} # {}
            authority == text \cap {"bank", "paypal", "amazon", "microsoft", "apple", "google",
                                    "irs", "fbi", "police", "court", "legal", "official"} # {}
            phishing == arg.content \cap {"verify account", "update information",
                                          "suspended account", "security breach",
                                          "unusual activity", "click here"} # {}
            domain == arg.sender.at
                      /\ arg.sender.domain \in {"gmail.com", "yahoo.com", "hotmail.com", "outlook.com"}
            \* the stated score, in tenths
            score == (IF urgency THEN 2 ELSE 0) + (IF authority THEN 2 ELSE 0)
                     + (IF phishing THEN 3 ELSE 0) + (IF domain THEN 2 ELSE 0)
        \* the score is compared to the nearest tenth: the float may be the
        \* neighbouring double
        IN  /\ ret.risk_score[1] = score
            /\ ret.suspicious = (score > 3)
            /\ ret.risk_level =
                  (IF score > 6 THEN "high" ELSE IF score > 3 THEN "medium" ELSE "low")
            /\ (urgency /\ authority /\ phishing /\ domain) =>
                  (ret.risk_score[1] = 9 /\ ret.suspicious /\ ret.risk_level = "high")

\* C13: for every network snapshot the raw C2 score is 0.2 if there are more
\* than 10 connections, plus 0.3 per connection on a suspicious port, plus
\* 0.2 if there are more than 20 DNS queries; c2_detected holds iff an
\* indicator fired, the indicator list has one entry per fired indicator and
\* the reported score is min(10, raw x 10); 15 connections, one of them on
\* port 4444, and 25 DNS queries give exactly the three indicators.
C13_C2Score ==
    (op = "encrypted.detect_c2_communication" /\ arg.valid) =>
        LET conns == arg.connections
            hits == {i \in 1 .. Len(conns) :
                        /\ conns[i].is_dict /\ conns[i].has_port
                        /\ conns[i].port \in {4444, 8080, 9999, 1337, 31337}}
            many == IF Len(conns) > 10 THEN 1 ELSE 0
            dns == IF Len(arg.dns_queries) > 20 THEN 1 ELSE 0
            \* raw score in tenths, which is raw x 10
            raw == 2 * many + 3 * Cardinality(hits) + 2 * dns
            fired == many + Cardinality(hits) + dns
        IN  /\ ret.c2_detected = (fired > 0)
            /\ Len(ret.indicators) = fired
            /\ ret.risk_score = (IF raw > 10 THEN <<10, 1>> ELSE <<raw, 1>>)
            /\ (Len(conns) = 15 /\ Len(arg.dns_queries) = 25
                 /\ Cardinality(hits) = 1 /\ \A i \in hits : conns[i].port = 4444) =>
                    /\ ret.c2_detected
                    /\ ret.indicators = <<"High connection count", "Suspicious port: 4444",
                                          "High DNS query count">>

\* 15 connections, one on port 4444, and 25 DNS queries
C13_Witness ==
    /\ op = "encrypted.detect_c2_communication" /\ arg.valid
    /\ Len(arg.connections) = 15 /\ Len(arg.dns_queries) = 25
    /\ arg.connections[1].port = 4444
    /\ Len(ret.indicators) = 3
    /\ ret.risk_score = <<7, 1>>

\* four suspicious ports: the raw score 1.2 is reported as 10
C13_WitnessClamp ==
    /\ op = "encrypted.detect_c2_communication" /\ arg.valid
    /\ Len(ret.indicators) >= 4
    /\ ret.risk_score = <<10, 1>>

\* position of a module in the documented order
RankOf(module_name) ==
    CASE module_name = "signature" -> 1
      [] module_name = "file_analysis" -> 2
      [] module_name = "behavioral" -> 3
      [] module_name = "encrypted" -> 4
      [] module_name = "social_engineering" -> 5
      [] OTHER -> 0

\* C14: in every verdict of detect the threat records are grouped by
\* originating module in the order signature, file_analysis, behavioral,
\* encrypted, social_engineering: no record of a later module precedes a
\* record of an earlier one, whatever parts the bundle holds.
C14_RecordsInModuleOrder ==
    (op = "detect") =>
        \A i, j \in 1 .. Len(ret.threats_detected) :
            /\ RankOf(OriginOf(ret.threats_detected[i])) > 0
            /\ (i < j) => RankOf(OriginOf(ret.threats_detected[i]))
                              <= RankOf(OriginOf(ret.threats_detected[j]))

\* a verdict with records of all five modules
C14_Witness ==
    /\ op = "detect"
    /\ {OriginOf(ret.threats_detected[i]) : i \in 1 .. Len(ret.threats_detected)} = Modules
    /\ Len(ret.threats_detected) > 5

\* C15: when the bundle holds system_data, the behavioral result of the
\* verdict is the score of the snapshot the bundle supplies; the coordinator
\* collects no live snapshot during detect or detect_advanced, so requests
\* with the same system_data get the same behavioral result.
C15_BehavioralScoresBundle ==
    /\ (/\ op = "detect" /\ arg.data.shape = "dict"
        /\ "system_data" \in DOMAIN arg.data.parts
        /\ arg.raises # "behavioral") =>
          /\ NormalVerdict
          /\ ret.module_results["behavioral"] = analyze_behavior(arg.data.parts["system_data"])
    /\ (/\ op = "detect_advanced" /\ arg.data.shape = "dict"
        /\ "system_data" \in DOMAIN arg.data.parts
        /\ "error" \notin DOMAIN ret) =>
          ((\E i \in 1 .. Len(ret.advanced_threats) :
                ret.advanced_threats[i].type = "Zero-day Exploit")
           = (analyze_behavior(arg.data.parts["system_data"]).threat_level = "high"))

\* the entries of a detect_advanced result of one type and confidence
EntriesOf(kind, confidence) ==
    {i \in 1 .. Len(ret.advanced_threats) :
        /\ ret.advanced_threats[i].type = kind
        /\ ret.advanced_threats[i].confidence = confidence}

\* C16: detect_advanced returns, for every bundle, one zero-day entry
\* (confidence 0.7) iff system_data is present and the behavioral threat
\* level is high; one fileless-malware entry (confidence 0.6) per process of
\* the snapshot whose lower-cased name is powershell.exe, wscript.exe or
\* cscript.exe, whatever else fired; one encrypted-malware entry (confidence
\* 0.8) iff network_data is present and the encrypted-traffic threat level
\* is high; and a threat count equal to the number of entries.  The
\* snapshots are those the request scored (the first collected for the
\* level, the second for the processes).
C16_AdvancedFindings ==
    (op = "detect_advanced" /\ arg.data.shape = "dict") =>
        LET present == DOMAIN arg.data.parts
            procs == arg.live2.processes
            hosts == {i \in 1 .. Len(procs) :
                         Lower(procs[i].name) \in {"powershell.exe", "wscript.exe", "cscript.exe"}}
        IN  /\ Cardinality(EntriesOf("Zero-day Exploit", <<7, 10>>)) =
                  (IF "system_data" \in present
                      /\ analyze_behavior(arg.live1).threat_level = "high"
                   THEN 1 ELSE 0)
            /\ Cardinality(EntriesOf("Fileless Malware", <<3, 5>>)) =
                  (IF "system_data" \in present THEN Cardinality(hosts) ELSE 0)
            /\ Cardinality(EntriesOf("Encrypted Malware", <<4, 5>>)) =
                  (IF "network_data" \in present
                      /\ detect_encrypted_threats(arg.data.parts["network_data"]).threat_level = "high"
                   THEN 1 ELSE 0)
            /\ Len(ret.advanced_threats) =
                  Cardinality(EntriesOf("Zero-day Exploit", <<7, 10>>))
                  + Cardinality(EntriesOf("Fileless Malware", <<3, 5>>))
                  + Cardinality(EntriesOf("Encrypted Malware", <<4, 5>>))
            /\ ret.threat_count = Len(ret.advanced_threats)

\* C17: every threat record of every verdict of detect, whichever module
\* produced it, carries a kind, the name of its originating module and a risk
\* tier that is one of low, medium, high.
C17_RecordFields ==
    (op = "detect") =>
        \A i \in 1 .. Len(ret.threats_detected) :
            LET record == ret.threats_detected[i]
            IN  /\ "type" \in DOMAIN record
                /\ "module" \in DOMAIN record
                /\ record.module \in {"signature", "file_analysis", "behavioral",
                                       "encrypted", "social_engineering"}
                /\ "risk_level" \in DOMAIN record
                /\ record.risk_level \in {"low", "medium", "high"}

\* C18: for a path without a file and for a file that exists but cannot be
\* read, the signature adapter returns a result with an error marker and
\* detected = false; an unreadable file is never reported clean.
C18_SignatureErrors ==
    (op = "signature.detect_threats" /\ arg.kind \in {"missing", "unreadable"}) =>
        /\ "error" \in DOMAIN ret
        /\ "detected" \in DOMAIN ret /\ ~ret.detected
        /\ ret.threat_type # "Clean"

\* C19: in every state reachable by update_weights calls every key of the
\* detection weights is one of the five module names and every weight is
\* non-negative.
C19_WeightsWellFormed ==
    /\ DOMAIN detection_weights \subseteq
          {"signature", "file_analysis", "behavioral", "encrypted", "social_engineering"}
    /\ \A k \in DOMAIN detection_weights : detection_weights[k][1] >= 0

\* C20: detect and detect_advanced leave the detection weights unchanged,
\* and the verdict of detect depends on the bundle and the current weights
\* alone: a detect call that follows another detect call on the same bundle,
\* with no adapter replaced by a throwing one, returns the same verdict.
C20_VerdictOfBundleAndWeights ==
    [][/\ (op' \in {"detect", "detect_advanced"}) => (detection_weights' = detection_weights)
       /\ (/\ op = "detect" /\ op' = "detect"
           /\ arg.raises = "none" /\ arg'.raises = "none"
           /\ arg.data.shape = "dict" /\ arg'.data = arg.data) => (ret' = ret)]_vars

\* C21: in every verdict of the normal path of detect the confidence is the
\* overall risk score divided by 10, for every bundle and every weight set:
\* each module adds weight x c to the confidence total exactly when it adds
\* weight x 10c to the risk total, and the clamps at 1.0 and 10.0 keep the
\* ratio.
C21_ConfidenceIsTenthOfRisk ==
    NormalVerdict =>
        /\ ret.confidence[1] * 10 * ret.overall_risk_score[2]
              = ret.overall_risk_score[1] * ret.confidence[2]
        /\ totals.total_confidence[1] * 10 * totals.total_risk_score[2]
              = totals.total_risk_score[1] * totals.total_confidence[2]
        /\ \A m \in DOMAIN ret.module_results :
              LET x == ConfidenceContribution(m, ret.module_results[m])
                  y == RiskContribution(m, ret.module_results[m])
              IN  x[1] * 10 * y[2] = y[1] * x[2]

\* both clamps bind: an accumulated risk above 10 with a confidence above 1
C21_Witness ==
    /\ NormalVerdict
    /\ totals.total_risk_score[1] > 10 * totals.total_risk_score[2]
    /\ totals.total_confidence[1] > totals.total_confidence[2]
    /\ ret.overall_risk_score = <<10, 1>>
    /\ ret.confidence = <<1, 1>>

\* the modules of the verdict with a non-zero contribution
NonZeroContributors ==
    {m \in DOMAIN ret.module_results :
        /\ ~ErrorMarked(ret.module_results[m])
        /\ StatedContribution(m, ret.module_results[m]) # RZero}

\* C22: under the built-in default weights a detect request in which a
\* single module has a non-zero contribution is judged "low" (its weighted
\* risk is at most 2.5), "medium" takes at least two contributing modules
\* and "high" at least four of the five, every contribution being at most 10.
C22_LevelsNeedSeveralModules ==
    \* the largest weighted risk of a set of modules, each contributing 10
    /\ \A S \in SUBSET Modules :
          LET w == SumRat([m \in S |-> DefaultWeights[m]], S)
              most == RMul(w, RInt(10))
          IN  /\ (Cardinality(S) = 1) => (RLe(most, <<5, 2>>) /\ RLt(most, RInt(4)))
              /\ (Cardinality(S) <= 3) => RLt(most, RInt(7))
    /\ (NormalVerdict /\ detection_weights = BuiltInDefaults) =>
        LET n == Cardinality(NonZeroContributors)
            r == totals.total_risk_score
        IN  /\ \A m \in NonZeroContributors :
                  LET c == StatedContribution(m, ret.module_results[m])
                  IN  c[1] >= 0 /\ c[1] <= 10 * c[2]
            /\ (n = 1) => (ret.threat_level = "low" /\ 2 * r[1] <= 5 * r[2])
            /\ (ret.threat_level = "medium") => (n >= 2)
            /\ (ret.threat_level = "high") => (n >= 4)

\* a "high" verdict under the defaults with exactly four contributing modules
C22_Witness ==
    /\ NormalVerdict /\ detection_weights = BuiltInDefaults
    /\ ret.threat_level = "high"
    /\ Cardinality(NonZeroContributors) = 4

\* a verdict under the defaults to which a single module contributes
C22_WitnessSingle ==
    /\ NormalVerdict /\ detection_weights = BuiltInDefaults
    /\ Cardinality(NonZeroContributors) = 1
    /\ ret.threat_level = "low"
    /\ RGt(totals.total_risk_score, RZero)

\* C23: in every verdict of detect threat_count is the length of
\* threats_detected, and threat_types is as long as threats_detected, its
\* i-th entry being the kind of the i-th threat record.
C23_CountAndTypesMatchRecords ==
    (op = "detect") =>
        /\ "threat_count" \in DOMAIN ret
        /\ ret.threat_count = Len(ret.threats_detected)
        /\ Len(ret.threat_types) = Len(ret.threats_detected)
        /\ \A i \in 1 .. Len(ret.threats_detected) :
              ret.threat_types[i] = ret.threats_detected[i].type

\* the same for the verdicts of the normal path alone
C23_OnNormalPath ==
    NormalVerdict =>
        /\ ret.threat_count = Len(ret.threats_detected)
        /\ Len(ret.threat_types) = Len(ret.threats_detected)
        /\ \A i \in 1 .. Len(ret.threats_detected) :
              ret.threat_types[i] = ret.threats_detected[i].type

\* the records of the verdict that come from module m, in order
RecordsFrom(m) ==
    SelectSeq(ret.threats_detected, LAMBDA record : OriginOf(record) = m)

\* C24: update_weights replaces the weights wholesale: after
\* update_weights(W) with sum(W) > 0 a module that is no key of W has no
\* weight at all, so in every later detect request it adds nothing to the
\* risk score or the confidence, while its threat records and its
\* module_results slot still appear in the verdict.
C24_UnweightedModuleIsSilent ==
    /\ (op = "update_weights" /\ arg.numeric /\ SumInt(arg.w, DOMAIN arg.w) > 0) =>
          \A m \in Modules : (m \notin DOMAIN arg.w) => (m \notin DOMAIN detection_weights)
    /\ NormalVerdict =>
          LET unweighted == DOMAIN ret.module_results \ DOMAIN detection_weights
              kept == [m \in DOMAIN ret.module_results \ unweighted |-> ret.module_results[m]]
              silent == calculate_ensemble_decision(detection_weights,
                            [threats_detected |-> ret.threats_detected,
                             module_results |-> kept])
          IN  /\ ret.overall_risk_score = silent.overall_risk_score
              /\ ret.confidence = silent.confidence
              /\ ret.threat_level = silent.threat_level
              /\ \A m \in unweighted :
                    /\ PartOf(m) \in DOMAIN arg.data.parts
                    /\ RecordsFrom(m) = ModuleThreats(m, ret.module_results[m])

\* after an update naming the signature module alone, a verdict with the
\* behavioral slot and its records, scored from the signature match only
C24_Witness ==
    /\ NormalVerdict
    /\ DOMAIN detection_weights = {"signature"}
    /\ "behavioral" \in DOMAIN ret.module_results
    /\ Len(RecordsFrom("behavioral")) > 0
    /\ RGt(StatedContribution("behavioral", ret.module_results["behavioral"]), RZero)
    /\ ret.overall_risk_score = <<8, 1>>

====
